---- MODULE Spec2Model ----
(***************************************************************************)
(* Model of multitask_classifier_taskrand.py: the task-interleaved         *)
(* training loop of train_multitask (schedule build, drain, evaluation,    *)
(* checkpoint gate), save_model / test_multitask, the random-number state  *)
(* that seed_everything fixes, and MultitaskBERT.get_pair_embeddings.      *)
(*                                                                         *)
(* Three specifications share the module:                                  *)
(*   Spec      one run of __main__: seed, train, test                      *)
(*   SpecPair  get_pair_embeddings applied to a batch of sentence pairs    *)
(*   SpecDet   two independent runs of __main__ with the same arguments    *)
(***************************************************************************)
EXTENDS Integers, Sequences, FiniteSets

\* ------------------------------------------------------------------ bounds
\* Largest training set of a task, in examples.
MaxData == 2
\* Largest args.epochs.
MaxEpochs == 2
\* States of the pseudo-random generator (the generator is a cycle of RngMod states).
RngMod == 16
\* Longest padded sentence of a pair batch, in tokens.
MaxLen == 2

\* args.seed, args.batch_size
Seeds == 0..3
BatchSizes == {1, 2}
\* Scores the evaluator can return, in halves: accuracies in [0,1], correlation in [-1,1].
Accs == 0..2
Corrs == -2..2
\* Rows of a pair batch and the token ids of real (unpadded) positions.
BatchRows == {1, 2}
Tokens == {1, 2}

\* ------------------------------------------------------- random generators
\* One draw advances the generator state.
RngNext(s) == (5 * s + 3) % RngMod

\* The value in 0..k-1 read from generator state s.
RngBelow(s, k) == (s * k) \div RngMod

\* torch.manual_seed / random.seed / np.random.seed: the state a seed fixes.
ManualSeed(seed) == seed % RngMod

\* A seed_everything that forgets torch.manual_seed: the torch generator keeps
\* the state the process started with.
seed_everything_no_torch(seed, rng) ==
    [system_rng |-> ManualSeed(seed), numpy_rng |-> ManualSeed(seed), torch_rng |-> rng.torch_rng]

seed_everything(seed, rng) ==
    [system_rng |-> ManualSeed(seed), numpy_rng |-> ManualSeed(seed), torch_rng |-> ManualSeed(seed)]

RECURSIVE Shuffle(_, _, _)
Shuffle(p, k, s) ==
    IF k <= 1 THEN [perm |-> p, rng |-> s]
    ELSE LET s1 == RngNext(s)
             j  == RngBelow(s1, k) + 1
         IN Shuffle([p EXCEPT ![k] = p[j], ![j] = p[k]], k - 1, s1)

\* torch.randperm(n): a permutation of 0..n-1 drawn from generator state s,
\* with the state the generator is left in.
randperm(n, s) == Shuffle([x \in 1..n |-> x - 1], n, s)


\* --------------------------------------------------------------- the tasks
Keys == {"sst", "para", "sts"}

\* keys_loaders[task_type], task_type in 0..2
keys_loaders == <<"sst", "para", "sts">>

\* A dataloaders dictionary with two entries exchanged.
dataloaders_swapped(task_key) ==
    CASE task_key = "sst"  -> "sst_train_dataloader"
      [] task_key = "para" -> "sts_train_dataloader"
      [] task_key = "sts"  -> "para_train_dataloader"

dataloaders(task_key) ==
    CASE task_key = "sst"  -> "sst_train_dataloader"
      [] task_key = "para" -> "para_train_dataloader"
      [] task_key = "sts"  -> "sts_train_dataloader"

step_funcs(task_key) ==
    CASE task_key = "sst"  -> "step_sst"
      [] task_key = "para" -> "step_para"
      [] task_key = "sts"  -> "step_sts"

\* The task whose training set a data loader was constructed over.
LoaderData(loader) ==
    CASE loader = "sst_train_dataloader"  -> "sst"
      [] loader = "para_train_dataloader" -> "para"
      [] loader = "sts_train_dataloader"  -> "sts"

\* len(DataLoader(data, batch_size)): the number of mini-batches of n examples.
LoaderLen(n, batch_size) == (n + batch_size - 1) \div batch_size

Min2(a, b) == IF a <= b THEN a ELSE b
Max2(a, b) == IF a >= b THEN a ELSE b

\* next(iter(loader)) on a shuffle=True loader over n examples: a fresh iterator
\* draws its base seed and its sampler seed from the torch generator, the sampler
\* permutes the whole data set from that seed, and the first batch_size indices of
\* the permutation are the batch.
NextOfFreshIter(n, batch_size, s) ==
    LET s1 == RngNext(s)
        s2 == RngNext(s1)
        order == randperm(n, s2).perm
    IN [batch |-> SubSeq(order, 1, Min2(batch_size, n)), rng |-> s2]

\* A Build phase whose paraphrase labels lack the "+ 1".
Indicators_para_unlabelled(n_sst, n_para, n_sts) ==
    [x \in 1..n_sst |-> 0] \o [x \in 1..n_para |-> 0] \o [x \in 1..n_sts |-> 2]

\* torch.concat((sst_indicators, para_indicators, sts_indicators))
Indicators(n_sst, n_para, n_sts) ==
    [x \in 1..n_sst |-> 0] \o [x \in 1..n_para |-> 1] \o [x \in 1..n_sts |-> 2]

\* task_indicators[task_indexes]
IndexBy(indicators, task_indexes) ==
    [x \in 1..Len(task_indexes) |-> indicators[task_indexes[x] + 1]]

\* The Build phase: the schedule of one epoch and the generator state after it.
BuildSchedule(n_sst, n_para, n_sts, s) ==
    LET ind == Indicators(n_sst, n_para, n_sts)
        rp  == randperm(Len(ind), s)
    IN [task_indicators |-> IndexBy(ind, rp.perm), rng |-> rp.rng]

\* MultitaskBERT(config): the three nn.Linear heads draw their initial weights.
InitModelRng(s) == RngNext(RngNext(RngNext(s)))

\* A step function in training mode: dropout draws its mask.
StepRng(s) == RngNext(s)

\* The loss of one example under reduction='sum', in a unit fine enough that the
\* division by any batch size of BatchSizes is exact.
ExampleLosses == {0, 2}

RECURSIVE SumOver(_)
SumOver(q) == IF q = <<>> THEN 0 ELSE q[1] + SumOver(Tail(q))

\* A step function that divides by the number of examples in the batch.
step_sts_mean(per_example, batch_size) == SumOver(per_example) \div Len(per_example)

\* F.cross_entropy(..., reduction='sum') / args.batch_size (line 187)
step_sst(per_example, batch_size) == SumOver(per_example) \div batch_size

\* F.binary_cross_entropy_with_logits(..., reduction='sum') / args.batch_size (line 204)
step_para(per_example, batch_size) == SumOver(per_example) \div batch_size

\* F.mse_loss(..., reduction='sum') / args.batch_size (line 224)
step_sts(per_example, batch_size) == SumOver(per_example) \div batch_size

\* step_funcs[task_key](batch, optimizer, model, device) (line 310): the loss returned
CallStep(fn, per_example, batch_size) ==
    CASE fn = "step_sst"  -> step_sst(per_example, batch_size)
      [] fn = "step_para" -> step_para(per_example, batch_size)
      [] fn = "step_sts"  -> step_sts(per_example, batch_size)

\* ------------------------------------------------------------------- state
VARIABLES
    pc,               \* position of the run in __main__ / train_multitask / test_multitask
    args,             \* seed, epochs, batch_size
    data,             \* examples in each task's training set
    rng,              \* system_rng, numpy_rng, torch_rng
    params,           \* model.state_dict(): the parameter values, named by the updates applied
    optim,            \* optimizer.state_dict(): optimizer steps taken
    best_dev_acc,     \* in sixths (the sum of the three scores, each in halves)
    dev_acc,          \* in sixths
    epoch,
    i,                \* index of the Drain loop
    task_indicators,  \* the schedule of the epoch
    num_batches,
    seen,             \* per task and example: times consumed by a step in this epoch
    last_step,        \* the last scheduled step: label, loader drawn from, step function
                      \* called, batch, per-example losses, loss returned
    file,             \* what is stored at args.filepath
    saves,            \* save_model calls of this run
    evals,            \* model_eval_multitask calls of train_multitask
    ckpts,            \* checkpoint decisions (line 329) of train_multitask
    max_seen,         \* largest aggregate evaluated so far, from the worst possible value
    history,          \* per finished epoch: its dev_acc and the parameters at its end
    test_model,       \* the parameters test_multitask loaded
    predictions       \* the parameters the prediction files were written from

mainVars == <<pc, args, data, rng, params, optim, best_dev_acc, dev_acc, epoch, i,
              task_indicators, num_batches, seen, last_step, file, saves, evals, ckpts,
              max_seen, history, test_model, predictions>>

\* State of the pair encoder (specification SpecPair).
VARIABLES
    p_pc,               \* position in get_pair_embeddings
    input_ids_1, attention_mask_1,
    input_ids_2, attention_mask_2,    \* batches: one row of tokens / mask bits per pair
    forward_calls       \* the (input_ids, attention_mask) given to self.forward, in order

pairVars == <<p_pc, input_ids_1, attention_mask_1, input_ids_2, attention_mask_2,
              forward_calls>>

\* State of the two compared runs (specification SpecDet).
VARIABLES
    runs    \* per run: position, torch generator state, epoch, Drain index,
            \* the epoch's schedule and the schedules built so far, by epoch

detVars == <<runs>>

\* Parameter values: whose run produced them and after how many optimizer steps.
Fresh == [run |-> "this", steps |-> 0]
NoParams == [run |-> "none", steps |-> 0]

NoFile == [exists |-> FALSE]

\* A checkpoint an earlier run of the program left at the same args.filepath.
EarlierFile ==
    [exists |-> TRUE, model |-> [run |-> "earlier", steps |-> 1], optim |-> 1,
     args |-> [seed |-> 0, epochs |-> 1, batch_size |-> 1], model_config |-> "config",
     system_rng |-> 0, numpy_rng |-> 0, torch_rng |-> 0]

NoStep == [label |-> -1, loader |-> "none", fn |-> "none", batch |-> <<>>,
           per_example |-> <<>>, loss |-> 0]

MinOf(S) == CHOOSE x \in S : \A y \in S : x <= y

\* The smallest sum the three scores can have.
WorstAggregate == MinOf(Accs) + MinOf(Accs) + MinOf(Corrs)

\* len(sst_train_dataloader), ... (line 288)
Count(task_key) == LoaderLen(data[task_key], args.batch_size)

num_batches_total == Count("sst") + Count("para") + Count("sts")

\* The arguments of a run and the sizes of the training sets it reads.
ConfigInit ==
    /\ args \in [seed : Seeds, epochs : 0..MaxEpochs, batch_size : BatchSizes]
    /\ data \in [Keys -> 1..MaxData]

\* The process starts with generators in whatever state the system gave them,
\* and with or without a file from an earlier run at args.filepath.
RunInit ==
    /\ pc = "main"
    /\ rng \in [system_rng : {0}, numpy_rng : {0}, torch_rng : 0..(RngMod - 1)]
    /\ file \in {NoFile, EarlierFile}

RestInit ==
    /\ params = NoParams
    /\ optim = 0
    /\ best_dev_acc = 0
    /\ dev_acc = 0
    /\ epoch = 0
    /\ i = 0
    /\ task_indicators = <<>>
    /\ num_batches = 0
    /\ seen = [k \in Keys |-> [x \in 0..(data[k] - 1) |-> 0]]
    /\ last_step = NoStep
    /\ saves = 0
    /\ evals = 0
    /\ ckpts = 0
    /\ max_seen = WorstAggregate
    /\ history = <<>>
    /\ test_model = NoParams
    /\ predictions = NoParams

MainInit == ConfigInit /\ RunInit /\ RestInit

\* ------------------------------------------------------------- __main__
\* line 465
SeedEverything ==
    /\ pc = "main"
    /\ UNCHANGED <<pairVars, detVars>>
    /\ rng' = seed_everything(args.seed, rng)
    /\ pc' = "train"
    /\ UNCHANGED <<args, data, params, optim, best_dev_acc, dev_acc, epoch, i,
                   task_indicators, num_batches, seen, last_step, file, saves, evals,
                   ckpts, max_seen, history, test_model, predictions>>

\* train_multitask up to the epoch loop (lines 237-281): the model is constructed,
\* the optimizer is created and best_dev_acc starts at 0.
TrainSetup ==
    /\ pc = "train"
    /\ UNCHANGED <<pairVars, detVars>>
    /\ rng' = [rng EXCEPT !.torch_rng = InitModelRng(@)]
    /\ params' = Fresh
    /\ optim' = 0
    /\ best_dev_acc' = 0
    /\ epoch' = 0
    /\ pc' = "epoch"
    /\ UNCHANGED <<args, data, dev_acc, i, task_indicators, num_batches, seen,
                   last_step, file, saves, evals, ckpts, max_seen, history, test_model, predictions>>

\* Build (lines 285-302), entered while range(args.epochs) has an epoch left.
Build ==
    /\ pc = "epoch"
    /\ UNCHANGED <<pairVars, detVars>>
    /\ epoch < args.epochs
    /\ \E b \in {BuildSchedule(Count("sst"), Count("para"), Count("sts"), rng.torch_rng)} :
          /\ task_indicators' = b.task_indicators
          /\ rng' = [rng EXCEPT !.torch_rng = b.rng]
    /\ num_batches' = 0
    /\ i' = 0
    /\ seen' = [k \in Keys |-> [x \in 0..(data[k] - 1) |-> 0]]
    /\ pc' = "drain"
    /\ UNCHANGED <<args, data, params, optim, best_dev_acc, dev_acc, epoch, last_step,
                   file, saves, evals, ckpts, max_seen, history, test_model, predictions>>

\* A Drain loop that stops after its first step.
DrainDone_after_one == i >= 1

\* range(num_batches_total) is exhausted (line 304).
DrainDone == i >= num_batches_total

\* One iteration of the Drain loop (lines 305-312).
DrainStep ==
    /\ pc = "drain"
    /\ UNCHANGED <<pairVars, detVars>>
    /\ ~DrainDone
    /\ LET task_type == task_indicators[i + 1]
           task_key  == keys_loaders[task_type + 1]
           loader    == dataloaders(task_key)
           src       == LoaderData(loader)
       IN \E nx \in {NextOfFreshIter(data[src], args.batch_size, rng.torch_rng)} :
          \E inBatch \in {{nx.batch[b] : b \in 1..Len(nx.batch)}} :
          \E per_example \in [1..Len(nx.batch) -> ExampleLosses] :
          \E loss \in {CallStep(step_funcs(task_key), per_example, args.batch_size)} :
             /\ last_step' = [label |-> task_type, loader |-> loader,
                              fn |-> step_funcs(task_key), batch |-> nx.batch,
                              per_example |-> per_example, loss |-> loss]
             /\ seen' = [seen EXCEPT ![src] =
                           [e \in DOMAIN seen[src] |->
                               IF e \in inBatch THEN seen[src][e] + 1 ELSE seen[src][e]]]
             /\ rng' = [rng EXCEPT !.torch_rng = StepRng(nx.rng)]
    /\ params' = [params EXCEPT !.steps = @ + 1]
    /\ optim' = optim + 1
    /\ num_batches' = num_batches + 1
    /\ i' = i + 1
    /\ UNCHANGED <<pc, args, data, best_dev_acc, dev_acc, epoch, task_indicators, file,
                   saves, evals, ckpts, max_seen, history, test_model, predictions>>

\* Done, then the evaluator (lines 314-328): the three dev scores are whatever the
\* model earns; dev_acc is their mean.
Evaluate ==
    /\ pc = "drain"
    /\ UNCHANGED <<pairVars, detVars>>
    /\ DrainDone
    /\ \E sst_dev_acc \in Accs, para_dev_acc \in Accs, sts_dev_corr \in Corrs :
          dev_acc' = sst_dev_acc + para_dev_acc + sts_dev_corr
    /\ evals' = evals + 1
    /\ pc' = "ckpt"
    /\ UNCHANGED <<args, data, rng, params, optim, best_dev_acc, epoch, i,
                   task_indicators, num_batches, seen, last_step, file, saves, ckpts,
                   max_seen, history, test_model, predictions>>

\* save_model (lines 164-176): what torch.save writes.
save_info ==
    [exists |-> TRUE, model |-> params, optim |-> optim, args |-> args,
     model_config |-> "config", system_rng |-> rng.system_rng,
     numpy_rng |-> rng.numpy_rng, torch_rng |-> rng.torch_rng]

\* A gate that also lets an equal aggregate through.
Improves_or_equal(d, best) == d >= best

\* if dev_acc > best_dev_acc (line 329)
Improves(d, best) == d > best

\* The checkpoint gate (lines 329-331) and the step to the next epoch.
Checkpoint ==
    /\ pc = "ckpt"
    /\ UNCHANGED <<pairVars, detVars>>
    /\ IF Improves(dev_acc, best_dev_acc)
       THEN /\ best_dev_acc' = dev_acc
            /\ file' = save_info
            /\ saves' = saves + 1
       ELSE UNCHANGED <<best_dev_acc, file, saves>>
    /\ ckpts' = ckpts + 1
    /\ max_seen' = Max2(max_seen, dev_acc)
    /\ history' = Append(history, [dev_acc |-> dev_acc, params |-> params])
    /\ epoch' = epoch + 1
    /\ pc' = "epoch"
    /\ UNCHANGED <<args, data, rng, params, optim, dev_acc, i, task_indicators,
                   num_batches, seen, last_step, evals, test_model, predictions>>

\* train_multitask returns and test_multitask loads (lines 340-346): torch.load
\* raises when nothing is stored at args.filepath; otherwise a model is
\* constructed and given the stored parameters.
TestLoad ==
    /\ pc = "epoch"
    /\ UNCHANGED <<pairVars, detVars>>
    /\ epoch >= args.epochs
    /\ IF file.exists
       THEN /\ rng' = [rng EXCEPT !.torch_rng = InitModelRng(@)]
            /\ test_model' = file.model
            /\ pc' = "test_loaded"
       ELSE /\ pc' = "FileNotFoundError"
            /\ UNCHANGED <<rng, test_model>>
    /\ UNCHANGED <<args, data, params, optim, best_dev_acc, dev_acc, epoch, i,
                   task_indicators, num_batches, seen, last_step, file, saves, evals,
                   ckpts, max_seen, history, predictions>>

\* The rest of test_multitask (lines 348-421): evaluate and write the six files.
TestPredict ==
    /\ pc = "test_loaded"
    /\ UNCHANGED <<pairVars, detVars>>
    /\ predictions' = test_model
    /\ pc' = "done"
    /\ UNCHANGED <<args, data, rng, params, optim, best_dev_acc, dev_acc, epoch, i,
                   task_indicators, num_batches, seen, last_step, file, saves, evals,
                   ckpts, max_seen, history, test_model>>

MainNext ==
    \/ SeedEverything
    \/ TrainSetup
    \/ Build
    \/ DrainStep
    \/ Evaluate
    \/ Checkpoint
    \/ TestLoad
    \/ TestPredict

\* ------------------------------------------------------- the pair encoder
\* self.tokenizer.sep_token_id
sep_token_id == 102

\* The longest sequence the encoder has position embeddings for (scaled down).
max_position_embeddings == 4

\* Sentences of real length r padded to length n: real tokens, then padding (id 0).
PaddedRows(n) ==
    UNION {{[x \in 1..n |-> IF x <= r THEN t[x] ELSE 0] : t \in [1..r -> Tokens]} : r \in 0..n}

\* The collate function's mask of a padded row: 1 on real tokens, 0 on padding.
MaskOf(row) == [x \in 1..Len(row) |-> IF row[x] = 0 THEN 0 ELSE 1]

\* sep_token_id.repeat(input_ids_1.shape[0], 1): a column of separators.
batch_sep_token_id(ids) == [r \in 1..Len(ids) |-> <<sep_token_id>>]

\* torch.ones_like
ones_like(m) == [r \in 1..Len(m) |-> [x \in 1..Len(m[r]) |-> 1]]

\* torch.cat((a, b, c, d), dim=1)
cat_dim1(a, b, c, d) == [r \in 1..Len(a) |-> a[r] \o b[r] \o c[r] \o d[r]]

\* A joint sequence that lacks its closing separator (mask included).
JointInput_no_final_sep(ids_1, mask_1, ids_2, mask_2) ==
    LET sep == batch_sep_token_id(ids_1)
        none == [r \in 1..Len(ids_1) |-> <<>>]
    IN [input_ids |-> cat_dim1(ids_1, sep, ids_2, none),
        attention_mask |-> cat_dim1(mask_1, ones_like(sep), mask_2, none)]

\* lines 112-115
JointInput(ids_1, mask_1, ids_2, mask_2) ==
    LET sep == batch_sep_token_id(ids_1)
    IN [input_ids |-> cat_dim1(ids_1, sep, ids_2, sep),
        attention_mask |-> cat_dim1(mask_1, ones_like(sep), mask_2, ones_like(sep))]

PairInit ==
    /\ p_pc = "call"
    /\ \E rows \in BatchRows, la \in 1..MaxLen, lb \in 1..MaxLen :
          /\ input_ids_1 \in [1..rows -> PaddedRows(la)]
          /\ input_ids_2 \in [1..rows -> PaddedRows(lb)]
    /\ attention_mask_1 = [r \in 1..Len(input_ids_1) |-> MaskOf(input_ids_1[r])]
    /\ attention_mask_2 = [r \in 1..Len(input_ids_2) |-> MaskOf(input_ids_2[r])]
    /\ forward_calls = <<>>

\* get_pair_embeddings up to its call of self.forward (lines 112-116).
GetPairEmbeddings ==
    /\ p_pc = "call"
    /\ UNCHANGED <<mainVars, detVars>>
    /\ forward_calls' = Append(forward_calls,
           JointInput(input_ids_1, attention_mask_1, input_ids_2, attention_mask_2))
    /\ p_pc' = "forward"
    /\ UNCHANGED <<input_ids_1, attention_mask_1, input_ids_2, attention_mask_2>>

\* The sequence length of a batch (shape[1]).
SeqLen(m) == Len(m[1])

\* self.forward (line 94): the encoder embeds what it is given, or fails on a
\* sequence it has no position embeddings for; get_pair_embeddings returns
\* the embedding (line 118).
Forward ==
    /\ p_pc = "forward"
    /\ UNCHANGED <<mainVars, detVars>>
    /\ p_pc' = IF SeqLen(forward_calls[Len(forward_calls)].input_ids) <= max_position_embeddings
               THEN "returned" ELSE "encoder_error"
    /\ UNCHANGED <<input_ids_1, attention_mask_1, input_ids_2, attention_mask_2,
                   forward_calls>>

PairNext == GetPairEmbeddings \/ Forward

\* ------------------------------------------- two runs with the same arguments
Runs == {1, 2}

DetInit ==
    runs \in [Runs -> [pc : {"main"}, torch_rng : 0..(RngMod - 1), epoch : {0}, i : {0},
                       task_indicators : {<<>>}, schedules : {<<>>}]]

\* line 465
DetSeed(r) ==
    /\ runs[r].pc = "main"
    /\ UNCHANGED <<mainVars, pairVars>>
    /\ runs' = [runs EXCEPT ![r].pc = "train",
                            ![r].torch_rng =
                                seed_everything(args.seed,
                                    [system_rng |-> 0, numpy_rng |-> 0,
                                     torch_rng |-> runs[r].torch_rng]).torch_rng]

\* lines 237-281
DetSetup(r) ==
    /\ runs[r].pc = "train"
    /\ UNCHANGED <<mainVars, pairVars>>
    /\ runs' = [runs EXCEPT ![r].pc = "epoch", ![r].torch_rng = InitModelRng(@)]

\* lines 285-302
DetBuild(r) ==
    /\ runs[r].pc = "epoch"
    /\ UNCHANGED <<mainVars, pairVars>>
    /\ runs[r].epoch < args.epochs
    /\ \E b \in {BuildSchedule(Count("sst"), Count("para"), Count("sts"), runs[r].torch_rng)} :
          runs' = [runs EXCEPT ![r].pc = "drain", ![r].i = 0,
                               ![r].torch_rng = b.rng,
                               ![r].task_indicators = b.task_indicators,
                               ![r].schedules = Append(@, b.task_indicators)]

\* lines 305-312
DetStep(r) ==
    /\ runs[r].pc = "drain"
    /\ UNCHANGED <<mainVars, pairVars>>
    /\ runs[r].i < num_batches_total
    /\ LET task_key == keys_loaders[runs[r].task_indicators[runs[r].i + 1] + 1]
           src == LoaderData(dataloaders(task_key))
       IN \E nx \in {NextOfFreshIter(data[src], args.batch_size, runs[r].torch_rng)} :
             runs' = [runs EXCEPT ![r].i = @ + 1, ![r].torch_rng = StepRng(nx.rng)]

\* lines 314-331: evaluation and the checkpoint gate draw nothing.
DetEpochEnd(r) ==
    /\ runs[r].pc = "drain"
    /\ UNCHANGED <<mainVars, pairVars>>
    /\ runs[r].i >= num_batches_total
    /\ runs' = [runs EXCEPT ![r].pc = "epoch", ![r].epoch = @ + 1]

DetNext ==
    \/ \E r \in Runs : DetSeed(r)
    \/ \E r \in Runs : DetSetup(r)
    \/ \E r \in Runs : DetBuild(r)
    \/ \E r \in Runs : DetStep(r)
    \/ \E r \in Runs : DetEpochEnd(r)

\* --------------------------------------------------------- specifications
vars == <<mainVars, pairVars, detVars>>

ConfigIdle ==
    /\ args = [seed |-> 0, epochs |-> 0, batch_size |-> 1]
    /\ data = [k \in Keys |-> 1]

RunIdle ==
    /\ pc = "idle"
    /\ rng = [system_rng |-> 0, numpy_rng |-> 0, torch_rng |-> 0]
    /\ file = NoFile

PairIdle ==
    /\ p_pc = "idle"
    /\ input_ids_1 = <<>>
    /\ attention_mask_1 = <<>>
    /\ input_ids_2 = <<>>
    /\ attention_mask_2 = <<>>
    /\ forward_calls = <<>>

DetIdle == runs = <<>>

\* One run of __main__.
Init == MainInit /\ PairIdle /\ DetIdle
Next == MainNext
Spec == Init /\ [][Next]_vars

\* get_pair_embeddings on a batch of pairs.
InitPair == PairInit /\ ConfigIdle /\ RunIdle /\ RestInit /\ DetIdle
NextPair == PairNext
SpecPair == InitPair /\ [][NextPair]_vars

\* Two runs of __main__ on the same arguments and data.
InitDet == DetInit /\ ConfigInit /\ RunIdle /\ RestInit /\ PairIdle
NextDet == DetNext
SpecDet == InitDet /\ [][NextDet]_vars

\* ------------------------------------------------------------------ claims
\* The Drain loop of the current epoch has taken all its steps.
EpochDrained == pc = "ckpt" \/ (pc = "drain" /\ DrainDone)

\* C1: within an epoch no example of any task is consumed twice by the scheduled
\* steps, and once the Drain loop has ended every example of every task has been
\* consumed exactly once.
C1_EveryBatchExactlyOnce ==
    /\ pc \in {"drain", "ckpt"} =>
          \A k \in Keys : \A x \in DOMAIN seen[k] : seen[k][x] <= 1
    /\ EpochDrained =>
          \A k \in Keys : \A x \in DOMAIN seen[k] : seen[k][x] = 1

\* Occurrences of label t in schedule s.
Occurrences(t, s) == Cardinality({x \in 1..Len(s) : s[x] = t})

\* C2: the schedule an epoch's Build phase produced has length
\* count_sst + count_para + count_sts and holds label t exactly count_t times.
C2_ScheduleIsPermutationOfCounts ==
    pc \in {"drain", "ckpt"} =>
        /\ Len(task_indicators) = Count("sst") + Count("para") + Count("sts")
        /\ \A t \in 0..2 :
              Occurrences(t, task_indicators) =
                  LoaderLen(data[<<"sst", "para", "sts">>[t + 1]], args.batch_size)

\* C2 witness: a later epoch's schedule that interleaves the tasks, with a task of
\* two batches.
C2_Witness ==
    /\ pc = "drain"
    /\ epoch = 1
    /\ Count("para") = 2
    /\ Count("sst") = 2
    /\ \E x, y, z \in 1..Len(task_indicators) :
          /\ x < y /\ y < z
          /\ task_indicators[x] = 1
          /\ task_indicators[y] = 0
          /\ task_indicators[z] = 1

\* C3: at every checkpoint decision, save_model runs and the best-metric record
\* becomes the epoch's aggregate if and only if the aggregate exceeds the best
\* aggregate seen so far, counted from the worst possible value; otherwise
\* nothing is stored and the record is unchanged.
C3_SavesIffAboveBestFromWorst ==
    [][pc = "ckpt" =>
          IF dev_acc > max_seen
          THEN file' = save_info /\ saves' = saves + 1 /\ best_dev_acc' = dev_acc
          ELSE file' = file /\ saves' = saves /\ best_dev_acc' = best_dev_acc]_vars

\* C4: every scheduled step draws its batch from the loader of the task its
\* schedule entry names and hands it to that task's step function.
C4_BatchRoutedToOwnTask ==
    ((pc = "drain" /\ i >= 1) \/ pc = "ckpt") =>
        LET t == task_indicators[i]
        IN /\ last_step.label = t
           /\ last_step.loader =
                  <<"sst_train_dataloader", "para_train_dataloader", "sts_train_dataloader">>[t + 1]
           /\ last_step.fn = <<"step_sst", "step_para", "step_sts">>[t + 1]
           /\ Len(last_step.batch) >= 1

\* C4 witness: a similarity step right after a sentiment step.
C4_Witness ==
    /\ pc = "drain"
    /\ i >= 2
    /\ task_indicators[i - 1] = 0
    /\ last_step.fn = "step_sts"
    /\ last_step.loader = "sts_train_dataloader"

\* C5: evaluation and the checkpoint decision have each run once per finished
\* epoch: never while an epoch's steps are being taken, evaluation only after
\* all count_sst + count_para + count_sts steps of the epoch, the checkpoint
\* decision before the next epoch builds its schedule.
C5_EvalAndCheckpointOncePerEpoch ==
    /\ pc = "drain" => evals = epoch /\ ckpts = epoch /\ num_batches = i
    /\ pc = "ckpt" => /\ evals = epoch + 1
                      /\ ckpts = epoch
                      /\ num_batches = Count("sst") + Count("para") + Count("sts")
    /\ pc = "epoch" => evals = epoch /\ ckpts = epoch
    /\ pc \in {"test_loaded", "done", "FileNotFoundError"} =>
          evals = args.epochs /\ ckpts = args.epochs

\* C5 witness: the second epoch is about to be decided.
C5_Witness == pc = "ckpt" /\ epoch = 1 /\ evals = 2 /\ ckpts = 1 /\ num_batches >= 4

\* get_pair_embeddings has built its joint sequence and called self.forward.
PairEncoded == p_pc \in {"forward", "returned", "encoder_error"}

\* Positions of a mask row that are 1.
Ones(row) == Cardinality({x \in 1..Len(row) : row[x] = 1})

\* C6: the sequence given to the encoder is, row by row, a, separator, b,
\* separator, of length len(a) + len(b) + 2; the mask is mask_a, 1, mask_b, 1;
\* a row whose a and b are fully unmasked has len(a) + len(b) + 2 ones.
C6_JointSequenceAndMask ==
    PairEncoded =>
        LET la == SeqLen(input_ids_1)
            lb == SeqLen(input_ids_2)
            joint == forward_calls[1]
        IN /\ Len(forward_calls) = 1
           /\ Len(joint.input_ids) = Len(input_ids_1)
           /\ Len(joint.attention_mask) = Len(input_ids_1)
           /\ \A r \in 1..Len(input_ids_1) :
                 /\ Len(joint.input_ids[r]) = la + lb + 2
                 /\ Len(joint.attention_mask[r]) = la + lb + 2
                 /\ \A x \in 1..(la + lb + 2) :
                       /\ joint.input_ids[r][x] =
                             IF x <= la THEN input_ids_1[r][x]
                             ELSE IF x = la + 1 THEN sep_token_id
                             ELSE IF x <= la + 1 + lb THEN input_ids_2[r][x - la - 1]
                             ELSE sep_token_id
                       /\ joint.attention_mask[r][x] =
                             IF x <= la THEN attention_mask_1[r][x]
                             ELSE IF x = la + 1 THEN 1
                             ELSE IF x <= la + 1 + lb THEN attention_mask_2[r][x - la - 1]
                             ELSE 1
                 /\ (Ones(attention_mask_1[r]) = la /\ Ones(attention_mask_2[r]) = lb)
                       => Ones(joint.attention_mask[r]) = la + lb + 2

\* C6 witness: a batch of two pairs, a of two tokens and b of one, the first
\* pair fully unmasked and the second with padding in a.
C6_Witness ==
    /\ PairEncoded
    /\ Len(input_ids_1) = 2
    /\ SeqLen(input_ids_1) = 2
    /\ SeqLen(input_ids_2) = 1
    /\ attention_mask_1[1] = <<1, 1>>
    /\ attention_mask_2[1] = <<1>>
    /\ attention_mask_1[2] = <<1, 0>>
    /\ input_ids_1[1] = <<1, 2>>

\* C7: a pair whose joint length len(a) + len(b) + 2 exceeds the encoder's
\* maximum ends in SequenceTooLongError and is never given to the encoder.
C7_TooLongIsRejected ==
    (p_pc # "call" /\ p_pc # "idle"
        /\ SeqLen(input_ids_1) + SeqLen(input_ids_2) + 2 > max_position_embeddings) =>
            /\ p_pc = "SequenceTooLongError"
            /\ forward_calls = <<>>

\* test_multitask has been entered and has got past (or failed at) torch.load.
TestEntered == pc \in {"test_loaded", "done", "FileNotFoundError"}

\* C8: when this run's training stored no checkpoint, test_multitask ends in the
\* missing-checkpoint error (torch.load's failure), loads no parameters and
\* writes no predictions.
C8_NoCheckpointNoTest ==
    (TestEntered /\ saves = 0) =>
        /\ pc = "FileNotFoundError"
        /\ test_model = NoParams
        /\ predictions = NoParams

\* C9: two runs with the same seed and the same batch counts have built the
\* same schedule for every epoch both have reached.
C9_SameSeedSameSchedules ==
    \A r1 \in DOMAIN runs, r2 \in DOMAIN runs :
        \A e \in 1..Min2(Len(runs[r1].schedules), Len(runs[r2].schedules)) :
            runs[r1].schedules[e] = runs[r2].schedules[e]

\* C9 witness: both runs have built two epochs' schedules, the two epochs'
\* schedules differ, and the runs are at different points.
C9_Witness ==
    /\ DOMAIN runs = Runs
    /\ Len(runs[1].schedules) = 2
    /\ Len(runs[2].schedules) = 2
    /\ runs[1].schedules[1] # runs[1].schedules[2]
    /\ runs[1].pc = "epoch"
    /\ runs[2].pc = "drain"
    /\ runs[2].i = 0

\* C10: after test_multitask has loaded a checkpoint this run saved, the model
\* holds the saved parameters, the generators are in the saved states, and the
\* schedule built next is the one that would have been built right after the save.
C10_SaveLoadRoundTrip ==
    (pc = "test_loaded" /\ saves > 0) =>
        /\ test_model = file.model
        /\ rng.system_rng = file.system_rng
        /\ rng.numpy_rng = file.numpy_rng
        /\ rng.torch_rng = file.torch_rng
        /\ BuildSchedule(Count("sst"), Count("para"), Count("sts"), rng.torch_rng).task_indicators
              = BuildSchedule(Count("sst"), Count("para"), Count("sts"), file.torch_rng).task_indicators

\* C11: the loss a step function returns is the sum of the per-example losses of
\* its batch divided by args.batch_size, whichever of the three step functions
\* ran and however many examples the batch holds.
C11_LossDividedByNominalBatchSize ==
    last_step.fn \in {"step_sst", "step_para", "step_sts"} =>
        /\ Len(last_step.per_example) = Len(last_step.batch)
        /\ last_step.loss * args.batch_size = SumOver(last_step.per_example)

\* C11 witness: a similarity step on a batch of fewer examples than
\* args.batch_size with a non-zero loss, where the two divisors give different
\* results.
C11_Witness ==
    /\ last_step.fn = "step_sts"
    /\ Len(last_step.batch) < args.batch_size
    /\ SumOver(last_step.per_example) > 0
    /\ last_step.loss * Len(last_step.batch) # SumOver(last_step.per_example)

\* The largest aggregate among the finished epochs.
MaxObserved == CHOOSE d \in {history[e].dev_acc : e \in DOMAIN history} :
                  \A e \in DOMAIN history : history[e].dev_acc <= d

\* The earliest finished epoch whose aggregate is the largest observed.
EarliestBest == CHOOSE e \in DOMAIN history :
                   /\ history[e].dev_acc = MaxObserved
                   /\ \A f \in DOMAIN history : history[f].dev_acc = MaxObserved => e <= f

\* Once this run has written a checkpoint, the file holds the parameters of
\* the end of the earliest epoch with the largest aggregate observed, and the
\* record is that aggregate.
PersistedIsEarliestBest ==
    saves > 0 =>
        /\ file.exists
        /\ file.model = history[EarliestBest].params
        /\ best_dev_acc = MaxObserved

\* C12: over the epochs of train_multitask the best-metric record never
\* decreases, training steps leave the checkpoint file alone, and a written
\* checkpoint always holds the parameters of the end of the earliest epoch
\* whose aggregate equals the largest aggregate observed so far.
C12_BestMonotoneEarliestPersisted ==
    /\ [][best_dev_acc' >= best_dev_acc]_vars
    /\ [][pc = "drain" => file' = file]_vars
    /\ []PersistedIsEarliestBest

\* C12 witness: two finished epochs with the same positive aggregate, one
\* checkpoint written, holding the first epoch's parameters and not the second's.
C12_Witness ==
    /\ Len(history) = 2
    /\ history[1].dev_acc = history[2].dev_acc
    /\ history[1].dev_acc > 0
    /\ saves = 1
    /\ file.model = history[1].params
    /\ file.model # history[2].params

====
